---- MODULE Spec2Model ----
(***************************************************************************)
(* Model of the electricity cost comparison application                    *)
(* (Electricity_App/logic.py, Electricity_App/app.py).                     *)
(*                                                                         *)
(* Python's float is an IEEE-754 binary64.  The simple mode of the         *)
(* calculator multiplies and divides integers by floats and then           *)
(* truncates with int(), so the rounding of the float operation decides    *)
(* the integer that comes out.  The operators of the first section         *)
(* compute these operations bit-exactly: a float is a sign, a 53-bit       *)
(* significand held in six limbs (3 bits, then five of 10 bits) and the    *)
(* exponent of its leading bit; every operation rounds to nearest, ties    *)
(* to even.  The operands are integers below 2^20, which keeps every       *)
(* intermediate product inside the range of TLC's integers.                *)
(***************************************************************************)
EXTENDS Integers, Sequences, FiniteSets, TLC

(***************************************************************************)
(* binary64 arithmetic                                                     *)
(***************************************************************************)
Limb == 2^10

HiOne == 2^2

NLimbs == 3 + 3

Abs(x) == IF x < 0 THEN -x ELSE x

Sign(x) == IF x < 0 THEN -1 ELSE IF x = 0 THEN 0 ELSE 1

FZero == [sgn |-> 0, m |-> <<0, 0, 0, 0, 0, 0>>, exp |-> 0]

\* The limbs m with one added at limb i, the carry moving toward limb 1.
RECURSIVE IncLimbs(_, _)
IncLimbs(m, i) ==
    IF i = 1 THEN [m EXCEPT ![1] = m[1] + 1]
    ELSE IF m[i] + 1 < Limb THEN [m EXCEPT ![i] = m[i] + 1]
    ELSE IncLimbs([m EXCEPT ![i] = 0], i - 1)

\* The significand incremented by one unit in the last place, renormalised
\* when it carries out of 53 bits.
FRoundUp(f) ==
    LET m == IncLimbs(f.m, NLimbs)
    IN  IF m[1] < 2 * HiOne THEN [f EXCEPT !.m = m]
        ELSE [f EXCEPT !.m = [m EXCEPT ![1] = HiOne], !.exp = f.exp + 1]

\* Round to nearest, ties to even: rem is what was cut off, unit the weight
\* of the last kept bit (rem < unit).
FRound(f, rem, unit) ==
    IF 2 * rem > unit \/ (2 * rem = unit /\ f.m[NLimbs] % 2 = 1) THEN FRoundUp(f) ELSE f

\* The exponent p of a / b: 2^p <= a / b < 2^(p+1), for a, b > 0.  d is
\* b * 2^p on the way up, n is a * 2^p on the way down.
RECURSIVE ExpUp(_, _, _)
ExpUp(a, d, p) == IF a < 2 * d THEN p ELSE ExpUp(a, 2 * d, p + 1)

RECURSIVE ExpDown(_, _, _)
ExpDown(n, b, p) == IF n >= b THEN -p ELSE ExpDown(2 * n, b, p + 1)

RatioExp(a, b) == IF a >= b THEN ExpUp(a, b, 0) ELSE ExpDown(2 * a, b, 1)

\* Long division: the next n limbs of r / den (r < den), then the remainder.
RECURSIVE DivLimbs(_, _, _)
DivLimbs(r, den, n) ==
    IF n = 0 THEN <<r>>
    ELSE <<(r * Limb) \div den>> \o DivLimbs((r * Limb) % den, den, n - 1)

\* a / b for integers a and b > 0: the correctly rounded quotient, which is
\* also the value of a decimal literal such as 0.82 (= 82 / 100).
FDiv(a, b) ==
    IF a = 0 THEN FZero
    ELSE LET p   == RatioExp(Abs(a), b)
             num == IF p < 0 THEN Abs(a) * 2^(-p) ELSE Abs(a)
             den == IF p < 0 THEN b ELSE b * 2^p
             r0  == num - den
             q   == DivLimbs((r0 * HiOne) % den, den, NLimbs - 1)
             f   == [sgn |-> Sign(a),
                     m   |-> <<HiOne + (r0 * HiOne) \div den>> \o SubSeq(q, 1, NLimbs - 1),
                     exp |-> p]
         IN  FRound(f, q[NLimbs], den)

\* The limbs m times n, limb 1 left unreduced (it holds the excess bits).
RECURSIVE MulLimbs(_, _, _, _)
MulLimbs(m, n, i, carry) ==
    IF i = 1 THEN <<m[1] * n + carry>>
    ELSE MulLimbs(m, n, i - 1, (m[i] * n + carry) \div Limb) \o <<(m[i] * n + carry) % Limb>>

\* The number of bits by which x >= 4 exceeds 3 bits.
ExcessBits(x) == CHOOSE k \in 0..22 : HiOne * 2^k <= x /\ x < 2 * HiOne * 2^k

\* The limbs m shifted right by k < 10 bits, bits moving from limb to limb;
\* in is what enters limb i from the left.
RECURSIVE ShiftBits(_, _, _, _)
ShiftBits(m, k, i, in) ==
    IF i > Len(m) THEN <<>>
    ELSE <<in * (Limb \div 2^k) + m[i] \div 2^k>> \o ShiftBits(m, k, i + 1, m[i] % 2^k)

\* The exact product [m, rem / unit] shifted right until it has 53 bits:
\* whole limbs first, then single bits; what falls off is kept for rounding.
RECURSIVE Normalise(_, _, _, _)
Normalise(m, k, rem, unit) ==
    IF k >= 10
    THEN Normalise(<<m[1] \div Limb, m[1] % Limb>> \o SubSeq(m, 2, NLimbs - 1),
                   k - 10, m[NLimbs] * unit + rem, unit * Limb)
    ELSE [m    |-> ShiftBits(m, k, 1, 0),
          rem  |-> (m[NLimbs] % 2^k) * unit + rem,
          unit |-> unit * 2^k]

\* f * t for a float f and an integer t (an integer converts to a float
\* exactly): the exact product, rounded once.
FMul(f, t) ==
    IF f.sgn = 0 \/ t = 0 THEN FZero
    ELSE LET prod == MulLimbs(f.m, Abs(t), NLimbs, 0)
             k    == ExcessBits(prod[1])
             nrm  == Normalise(prod, k, 0, 1)
             g    == [sgn |-> f.sgn * Sign(t), m |-> nrm.m, exp |-> f.exp + k]
         IN  FRound(g, nrm.rem, nrm.unit)

\* int(f): truncation toward zero (|f| < 2^23).
FTrunc(f) ==
    IF f.sgn = 0 \/ f.exp < 0 THEN 0
    ELSE IF f.exp <= 2 THEN f.sgn * (f.m[1] \div 2^(2 - f.exp))
    ELSE IF f.exp <= 12 THEN f.sgn * ((f.m[1] * Limb + f.m[2]) \div 2^(12 - f.exp))
    ELSE f.sgn * (((f.m[1] * Limb + f.m[2]) * Limb + f.m[3]) \div 2^(22 - f.exp))

\* math.floor(f), the reading of "floor" that the statements about rounded
\* amounts are compared with (|f| < 2^23).
FIsInteger(f) ==
    \/ f.sgn = 0
    \/ /\ f.exp >= 0
       /\ f.m[4] = 0 /\ f.m[5] = 0 /\ f.m[6] = 0
       /\ ((f.m[1] * Limb + f.m[2]) * Limb + f.m[3]) % 2^(22 - f.exp) = 0

FFloor(f) == IF f.sgn >= 0 \/ FIsInteger(f) THEN FTrunc(f) ELSE FTrunc(f) - 1

(***************************************************************************)
(* General helpers                                                         *)
(***************************************************************************)
\* The outcome of a call: not run yet, a returned value, a raised exception.
NotRun == [kind |-> "none"]

Returned(v) == [kind |-> "return", value |-> v]

Raised(e) == [kind |-> "raise", error |-> e]

\* No call (the application calls the calculator only while it renders).
NoCall == [fn |-> "none"]

Min(a, b) == IF a < b THEN a ELSE b

RECURSIVE SumSeq(_)
SumSeq(s) == IF s = <<>> THEN 0 ELSE s[1] + SumSeq(Tail(s))

\* All sequences over S of length lo..hi.
SeqsOf(S, lo, hi) == UNION {[1..n -> S] : n \in lo..hi}

(***************************************************************************)
(* State                                                                   *)
(***************************************************************************)
VARIABLES
    master_df,          \* ElectricityCalculator.master_df
    call,               \* the method of the calculator called last, with its arguments
    result,             \* what that call returned or raised
    billing_items,      \* st.session_state['billing_items']
    u_in,               \* the usage widgets u_<year>_<month>
    p_in,               \* the billed-amount widgets p_<year>_<month>
    unchecked,          \* the plan checkboxes sel_<plan> that are unticked
    base_monthly_cost,  \* the script's locals after its last run
    month_records,
    total_usage_kwh,
    total_actual_cost,
    calc_months

calc_vars == <<master_df, call, result>>

form_vars == <<billing_items, u_in, p_in, unchecked>>

run_vars == <<base_monthly_cost, month_records, total_usage_kwh, total_actual_cost, calc_months>>

vars == <<master_df, call, result, billing_items, u_in, p_in, unchecked,
          base_monthly_cost, month_records, total_usage_kwh, total_actual_cost, calc_months>>

(***************************************************************************)
(* Simple mode: ElectricityCalculator.calculate_plan_costs                 *)
(***************************************************************************)
\* A plan's rate is a decimal literal with two places (0.82); the model
\* carries it as the number of hundredths and PlanRate is its float.
PlanRate(rate) == FDiv(rate, 100)

ProposedCostCeil(total_actual_cost_, plan_rate) ==
    FTrunc(FMul(PlanRate(plan_rate), total_actual_cost_)) + 1

\* int(total_actual_cost * plan_rate)
ProposedCost(total_actual_cost_, plan_rate) ==
    FTrunc(FMul(PlanRate(plan_rate), total_actual_cost_))

calculate_plan_costs(total_actual_cost_, plan_rate, calc_months_) ==
    LET proposed_cost    == ProposedCost(total_actual_cost_, plan_rate)
        reduction_amount == total_actual_cost_ - proposed_cost
    IN  [proposed_cost    |-> proposed_cost,
         reduction_amount |-> reduction_amount,
         reduction_pct    |-> IF total_actual_cost_ > 0
                              THEN FMul(FDiv(reduction_amount, total_actual_cost_), 100)
                              ELSE FZero,
         avg_reduction    |-> IF calc_months_ > 0
                              THEN FTrunc(FDiv(reduction_amount, calc_months_))
                              ELSE 0]

(***************************************************************************)
(* Simple mode: ElectricityCalculator.calculate_item_breakdown             *)
(***************************************************************************)
\* The decimal digits of n >= 0, as characters.
RECURSIVE Digits(_)
Digits(n) ==
    LET d == <<"0", "1", "2", "3", "4", "5", "6", "7", "8", "9">>[(n % 10) + 1]
    IN  IF n < 10 THEN <<d>> ELSE Digits(n \div 10) \o <<d>>

\* The digits ds with a comma before every group of three from the right.
RECURSIVE Grouped(_)
Grouped(ds) ==
    IF Len(ds) <= 3 THEN ds
    ELSE Grouped(SubSeq(ds, 1, Len(ds) - 3)) \o <<",">> \o SubSeq(ds, Len(ds) - 2, Len(ds))

\* f"¥{x:,}": the yen sign, the minus sign of a negative amount, the digits
\* in groups of three.
FormatYen(x) ==
    <<"yen">> \o (IF x < 0 THEN <<"-">> ELSE <<>>) \o Grouped(Digits(Abs(x)))

\* The amount a formatted text shows (what a reader of the table reads back).
RECURSIVE DigitsValue(_, _)
DigitsValue(cs, acc) ==
    IF cs = <<>> THEN acc
    ELSE IF cs[1] = "," THEN DigitsValue(Tail(cs), acc)
    ELSE DigitsValue(Tail(cs),
                     10 * acc + (CHOOSE d \in 0..9 : Digits(d) = <<cs[1]>>))

ParseYen(text) ==
    IF Len(text) >= 2 /\ text[2] = "-"
    THEN -DigitsValue(SubSeq(text, 3, Len(text)), 0)
    ELSE DigitsValue(Tail(text), 0)

ItemTotalCurrentFloor(val, base_monthly_cost_, total_actual_cost_) ==
    IF base_monthly_cost_ > 0
    THEN FFloor(FMul(FDiv(val, base_monthly_cost_), total_actual_cost_))
    ELSE 0

ItemTotalCurrentEarlyInt(val, base_monthly_cost_, total_actual_cost_) ==
    IF base_monthly_cost_ > 0
    THEN FTrunc(FDiv(val, base_monthly_cost_)) * total_actual_cost_
    ELSE 0

\* int((item["val"] / base_monthly_cost) * total_actual_cost) if base_monthly_cost > 0 else 0
ItemTotalCurrent(val, base_monthly_cost_, total_actual_cost_) ==
    IF base_monthly_cost_ > 0
    THEN FTrunc(FMul(FDiv(val, base_monthly_cost_), total_actual_cost_))
    ELSE 0

\* int(item_total_current * plan_rate)
ItemTotalNew(item_total_current, plan_rate) ==
    FTrunc(FMul(PlanRate(plan_rate), item_total_current))

\* The rows of the on-screen table; the keys are the columns
\* 項目 (item), 現状 (current), 提案後 (proposed), 差額 (difference).
calculate_item_breakdown(billing_items_, base_monthly_cost_, total_actual_cost_, plan_rate) ==
    [i \in 1..Len(billing_items_) |->
        LET item_total_current ==
                ItemTotalCurrent(billing_items_[i].val, base_monthly_cost_, total_actual_cost_)
            item_total_new == ItemTotalNew(item_total_current, plan_rate)
        IN  [item       |-> billing_items_[i].name,
             current    |-> FormatYen(item_total_current),
             proposed   |-> FormatYen(item_total_new),
             difference |-> FormatYen(item_total_current - item_total_new)]]

(***************************************************************************)
(* ElectricityCalculator.generate_excel_report                             *)
(*                                                                         *)
(* A plan's name is a sequence of characters.  The workbook is the         *)
(* sequence of its sheets in the order of their creation; a sheet is a     *)
(* name and the rows written to it (the header row, which is the same for  *)
(* every table of a kind, is left out).  The labels of a record (year,     *)
(* month, input type) are texts.                                           *)
(***************************************************************************)
SheetNameLen == 15

MonthlySuffix == <<"_", "m", "o", "n", "t", "h", "l", "y">>

ItemsSuffix == <<"_", "i", "t", "e", "m", "s">>

\* plan['p'][:15]
Truncated(name) == SubSeq(name, 1, Min(SheetNameLen, Len(name)))

ProposedAmountCeil(billed, plan_rate) ==
    IF FIsInteger(FMul(PlanRate(plan_rate), billed))
    THEN FTrunc(FMul(PlanRate(plan_rate), billed))
    ELSE FTrunc(FMul(PlanRate(plan_rate), billed)) + 1

\* (df_month["請求金額"] * plan["rate"]).astype(int)
ProposedAmount(billed, plan_rate) == FTrunc(FMul(PlanRate(plan_rate), billed))

\* df_month with the columns 提案金額 (proposed) and 削減額 (reduction) added.
MonthRows(month_records_, plan_rate) ==
    [i \in 1..Len(month_records_) |->
        [year       |-> month_records_[i].year,
         month      |-> month_records_[i].month,
         usage      |-> month_records_[i].usage,
         billed     |-> month_records_[i].billed,
         proposed   |-> ProposedAmount(month_records_[i].billed, plan_rate),
         reduction  |-> month_records_[i].billed
                        - ProposedAmount(month_records_[i].billed, plan_rate),
         input_type |-> month_records_[i].input_type]]

\* sum_row: the sums of the four numeric columns of df_month.
SumRow(rows) ==
    [year       |-> "total",
     month      |-> "",
     usage      |-> SumSeq([i \in 1..Len(rows) |-> rows[i].usage]),
     billed     |-> SumSeq([i \in 1..Len(rows) |-> rows[i].billed]),
     proposed   |-> SumSeq([i \in 1..Len(rows) |-> rows[i].proposed]),
     reduction  |-> SumSeq([i \in 1..Len(rows) |-> rows[i].reduction]),
     input_type |-> "-"]

\* pd.concat([df_month, sum_row])
MonthlyTable(month_records_, plan_rate) ==
    MonthRows(month_records_, plan_rate) \o <<SumRow(MonthRows(month_records_, plan_rate))>>

\* items_data: the breakdown with plain integers.
ItemsTable(billing_items_, base_monthly_cost_, total_actual_cost_, plan_rate) ==
    [i \in 1..Len(billing_items_) |->
        LET current_val ==
                ItemTotalCurrent(billing_items_[i].val, base_monthly_cost_, total_actual_cost_)
            new_val == ItemTotalNew(current_val, plan_rate)
        IN  [item      |-> billing_items_[i].name,
             current   |-> current_val,
             proposed  |-> new_val,
             reduction |-> current_val - new_val]]

SheetIndex(book, name) ==
    IF \E i \in 1..Len(book) : book[i].name = name
    THEN CHOOSE i \in 1..Len(book) : book[i].name = name
    ELSE 0

WriteSheetKeepFirst(book, name, rows) ==
    IF SheetIndex(book, name) = 0 THEN Append(book, [name |-> name, rows |-> rows])
    ELSE book

\* DataFrame.to_excel(writer, sheet_name=name): a new sheet, or, when the
\* writer already holds a sheet of this name, the rows written over the
\* rows of that sheet from its top (rows beyond the new ones stay).
WriteSheet(book, name, rows) ==
    LET k == SheetIndex(book, name)
    IN  IF k = 0 THEN Append(book, [name |-> name, rows |-> rows])
        ELSE [book EXCEPT ![k].rows =
                 rows \o SubSeq(book[k].rows, Len(rows) + 1, Len(book[k].rows))]

\* The body of the loop over selected_plans, from the plan at index i on.
RECURSIVE WritePlans(_, _, _, _, _, _, _)
WritePlans(book, selected_plans_, i, month_records_, billing_items_, base_monthly_cost_, total_actual_cost_) ==
    IF i > Len(selected_plans_) THEN book
    ELSE LET plan == selected_plans_[i]
             with_month == WriteSheet(book, Truncated(plan.p) \o MonthlySuffix,
                                      MonthlyTable(month_records_, plan.rate))
             with_items == WriteSheet(with_month, Truncated(plan.p) \o ItemsSuffix,
                                      ItemsTable(billing_items_, base_monthly_cost_,
                                                 total_actual_cost_, plan.rate))
         IN  WritePlans(with_items, selected_plans_, i + 1, month_records_, billing_items_,
                        base_monthly_cost_, total_actual_cost_)

\* With plans selected but no record, df_month has no column 請求金額
\* (KeyError); a workbook without a sheet cannot be saved (IndexError when
\* the writer is closed).
generate_excel_report(selected_plans_, month_records_, billing_items_, base_monthly_cost_, total_actual_cost_) ==
    IF selected_plans_ = <<>> THEN Raised("IndexError")
    ELSE IF month_records_ = <<>> THEN Raised("KeyError")
    ELSE Returned(WritePlans(<<>>, selected_plans_, 1, month_records_, billing_items_,
                             base_monthly_cost_, total_actual_cost_))

(***************************************************************************)
(* Catalog mode: ElectricityCalculator.calculate_cost                      *)
(*                                                                         *)
(* The tariff amounts are products and sums of the catalog's prices, the   *)
(* capacity and the usage, and one division by 100.  The model carries     *)
(* every amount of this mode in hundredths (Money(x) = 100 * x), so the    *)
(* division is exact.  A cell of the catalog is a number or, in a          *)
(* malformed row, a text; a power factor is <<>> (None) or <<pf>>.         *)
(***************************************************************************)
Money(x) == 100 * x

Number(v) == [type |-> "number", v |-> v]

Text == [type |-> "text"]

IsNumber(cell) == cell.type = "number"

NoPowerFactor == <<>>

\* master_df[(company_name == ...) & (contract_type == ...)]
MatchingPlans(df, company_name, contract_type) ==
    SelectSeq(df, LAMBDA row : row.company_name = company_name
                               /\ row.contract_type = contract_type)

HighVoltageBaseChargeSurcharge(base_unit_price, capacity, pf) ==
    base_unit_price * capacity * (15 + pf)

\* base_unit_price * capacity * (185 - power_factor) / 100, in hundredths
HighVoltageBaseCharge(base_unit_price, capacity, pf) ==
    base_unit_price * capacity * (185 - pf)

\* base_unit_price * capacity, in hundredths
LowVoltageBaseCharge(base_unit_price, capacity) == Money(base_unit_price * capacity)

\* if power_factor is None: raise ValueError, inside the loop over the months
MissingPowerFactor(contract_type, monthly_usage, power_factor) ==
    monthly_usage # <<>> /\ contract_type = "High Voltage" /\ power_factor = NoPowerFactor

\* The arithmetic of the loop raises TypeError on a price that is a text;
\* the prices are used only inside the loop.
PricesUsable(plan, monthly_usage) ==
    \/ monthly_usage = <<>>
    \/ IsNumber(plan.base_unit_price) /\ IsNumber(plan.energy_unit_price)

LastMatch(plans) == plans[Len(plans)]

\* plan.iloc[0]
FirstMatch(plans) == plans[1]

calculate_cost(df, company_name, contract_type, capacity, monthly_usage, power_factor) ==
    LET plans == MatchingPlans(df, company_name, contract_type)
        plan  == FirstMatch(plans)
        base_charge ==
            IF contract_type = "High Voltage"
            THEN HighVoltageBaseCharge(plan.base_unit_price.v, capacity, power_factor[1])
            ELSE LowVoltageBaseCharge(plan.base_unit_price.v, capacity)
        monthly_base_charges   == [i \in 1..Len(monthly_usage) |-> base_charge]
        monthly_energy_charges ==
            [i \in 1..Len(monthly_usage) |-> Money(plan.energy_unit_price.v * monthly_usage[i])]
        monthly_costs ==
            [i \in 1..Len(monthly_usage) |-> monthly_base_charges[i] + monthly_energy_charges[i]]
        annual_cost == SumSeq(monthly_costs)
        annual_running_incentive == Money(plan.incentive_running.v * 12)
    IN  IF plans = <<>> THEN Raised("ValueError: no such plan")
        ELSE IF MissingPowerFactor(contract_type, monthly_usage, power_factor)
        THEN Raised("ValueError: power factor required")
        ELSE IF ~PricesUsable(plan, monthly_usage)
        THEN Raised("TypeError")
        ELSE IF ~(IsNumber(plan.incentive_shot) /\ IsNumber(plan.incentive_running))
        THEN Raised("TypeError")
        ELSE Returned([monthly_costs          |-> monthly_costs,
                       annual_cost            |-> annual_cost,
                       monthly_base_charges   |-> monthly_base_charges,
                       monthly_energy_charges |-> monthly_energy_charges,
                       incentive_shot         |-> Money(plan.incentive_shot.v),
                       incentive_running      |-> annual_running_incentive,
                       net_annual_cost        |-> annual_cost - Money(plan.incentive_shot.v)
                                                  - annual_running_incentive])

(***************************************************************************)
(* Catalog mode: ElectricityCalculator.get_comparison                      *)
(***************************************************************************)
\* master_df[master_df['contract_type'] == contract_type]
AvailablePlans(df, contract_type) ==
    SelectSeq(df, LAMBDA row : row.contract_type = contract_type)

\* The entry appended for a plan whose calculation returned.
ComparisonEntry(plan, r) ==
    [company_name           |-> plan.company_name,
     annual_cost            |-> r.annual_cost,
     net_annual_cost        |-> r.net_annual_cost,
     incentive_shot         |-> r.incentive_shot,
     incentive_running      |-> r.incentive_running,
     monthly_costs          |-> r.monthly_costs,
     monthly_base_charges   |-> r.monthly_base_charges,
     monthly_energy_charges |-> r.monthly_energy_charges]

RECURSIVE ComparisonResultsNoTry(_, _, _, _, _, _)
ComparisonResultsNoTry(df, plans, contract_type, capacity, monthly_usage, power_factor) ==
    IF plans = <<>> THEN <<>>
    ELSE LET r == calculate_cost(df, plans[1].company_name, contract_type,
                                 capacity, monthly_usage, power_factor)
         IN  IF r.kind = "return"
             THEN <<ComparisonEntry(plans[1], r.value)>>
                  \o ComparisonResultsNoTry(df, Tail(plans), contract_type,
                                            capacity, monthly_usage, power_factor)
             ELSE <<>>

\* The loop over available_plans: comparison_results as it stands before the
\* sort.  A plan whose calculation raises is skipped (except: continue).
RECURSIVE ComparisonResults(_, _, _, _, _, _)
ComparisonResults(df, plans, contract_type, capacity, monthly_usage, power_factor) ==
    IF plans = <<>> THEN <<>>
    ELSE LET r == calculate_cost(df, plans[1].company_name, contract_type,
                                 capacity, monthly_usage, power_factor)
             rest == ComparisonResults(df, Tail(plans), contract_type,
                                       capacity, monthly_usage, power_factor)
         IN  IF r.kind = "return" THEN <<ComparisonEntry(plans[1], r.value)>> \o rest
             ELSE rest

RECURSIVE InsertAtFront(_, _)
InsertAtFront(s, key) ==
    IF s = <<>> \/ s[1].net_annual_cost >= key THEN 0
    ELSE 1 + InsertAtFront(Tail(s), key)

\* The number of leading entries of s that stay in front of an entry with
\* this key: the keys not greater than it.
RECURSIVE InsertAt(_, _)
InsertAt(s, key) ==
    IF s = <<>> \/ s[1].net_annual_cost > key THEN 0
    ELSE 1 + InsertAt(Tail(s), key)

\* list.sort(key=net_annual_cost): ascending and stable.
RECURSIVE SortByNet(_)
SortByNet(s) ==
    IF s = <<>> THEN <<>>
    ELSE LET sorted == SortByNet(SubSeq(s, 1, Len(s) - 1))
             e      == s[Len(s)]
             k      == InsertAt(sorted, e.net_annual_cost)
         IN  SubSeq(sorted, 1, k) \o <<e>> \o SubSeq(sorted, k + 1, Len(sorted))

get_comparison(df, contract_type, capacity, monthly_usage, power_factor) ==
    Returned(SortByNet(ComparisonResults(df, AvailablePlans(df, contract_type), contract_type,
                                         capacity, monthly_usage, power_factor)))

(***************************************************************************)
(* The calculator called directly: inputs of the catalog mode              *)
(***************************************************************************)
MaxRows == 3

Row(company, type, base, energy, shot, running) ==
    [company_name |-> company, contract_type |-> type,
     base_unit_price |-> base, energy_unit_price |-> energy,
     incentive_shot |-> shot, incentive_running |-> running]

\* Two plans with the same figures, a dearer one, a second row for company A
\* with other figures, a malformed second row for company B, a high-voltage
\* plan.
CatalogRows ==
    { Row("A", "Low Voltage", Number(10), Number(2), Number(0), Number(0)),
      Row("B", "Low Voltage", Number(10), Number(2), Number(0), Number(0)),
      Row("C", "Low Voltage", Number(20), Number(3), Number(0), Number(1)),
      Row("A", "Low Voltage", Number(20), Number(3), Number(4), Number(1)),
      Row("B", "Low Voltage", Text, Number(2), Number(0), Number(0)),
      Row("A", "High Voltage", Number(10), Number(2), Number(0), Number(0)) }

\* The catalogs: up to MaxRows different rows, in any order.
Catalogs ==
    {df \in SeqsOf(CatalogRows, 1, MaxRows) :
        \A i, j \in 1..Len(df) : i # j => df[i] # df[j]}

Capacities == {2, 3}

UsageSeries == {<<>>, <<5>>, <<7>>, <<5, 7>>}

PowerFactors == {NoPowerFactor, <<85>>, <<86>>}

CostCalls ==
    [fn : {"calculate_cost"}, company_name : {"A", "B"},
     contract_type : {"Low Voltage", "High Voltage"}, capacity : Capacities,
     monthly_usage : UsageSeries, power_factor : PowerFactors]

ComparisonCalls ==
    [fn : {"get_comparison"}, contract_type : {"Low Voltage", "High Voltage"},
     capacity : {2}, monthly_usage : UsageSeries, power_factor : PowerFactors]

CallCalculateCost ==
    /\ call.fn = "calculate_cost" /\ result = NotRun
    /\ result' = calculate_cost(master_df, call.company_name, call.contract_type,
                                call.capacity, call.monthly_usage, call.power_factor)
    /\ UNCHANGED <<master_df, call, form_vars, run_vars>>

CallGetComparison ==
    /\ call.fn = "get_comparison" /\ result = NotRun
    /\ result' = get_comparison(master_df, call.contract_type, call.capacity,
                                call.monthly_usage, call.power_factor)
    /\ UNCHANGED <<master_df, call, form_vars, run_vars>>

(***************************************************************************)
(* The calculator called directly: inputs of the simple mode               *)
(***************************************************************************)
MaxTotal == 160

MaxMonths == 3

MaxItems == 3

RatePcts == {1, 29, 75, 80, 82, 83, 84, 85, 100}

ItemVals == {-16, 1, 16, 32}

ItemNames == <<"item1", "item2", "item3", "item4", "item5">>

\* Item lists of every length up to MaxItems, with names all different or
\* all the same.
ItemLists ==
    {[i \in 1..Len(vs) |-> [name |-> IF same THEN ItemNames[1] ELSE ItemNames[i],
                            val  |-> vs[i]]] :
        vs \in SeqsOf(ItemVals, 0, MaxItems), same \in BOOLEAN}

ItemSum(items) == SumSeq([i \in 1..Len(items) |-> items[i].val])

BreakdownTotals == {0, 49, 150}

BreakdownRates == {75, 100}

\* The calls made to the simple mode: the arguments are drawn when the call
\* is made, the result is NotRun until the method has run.
PlanCostCalls ==
    [fn : {"calculate_plan_costs"}, total_actual_cost : 0..MaxTotal,
     plan_rate : RatePcts, calc_months : 0..MaxMonths]

BreakdownCalls ==
    UNION {[fn : {"calculate_item_breakdown"}, billing_items : {items},
            base_monthly_cost : {ItemSum(items), 0},
            total_actual_cost : BreakdownTotals, plan_rate : BreakdownRates] :
           items \in ItemLists}

CallPlanCosts ==
    /\ call.fn = "calculate_plan_costs" /\ result = NotRun
    /\ result' = Returned(calculate_plan_costs(call.total_actual_cost, call.plan_rate,
                                                call.calc_months))
    /\ UNCHANGED <<master_df, call, form_vars, run_vars>>

CallItemBreakdown ==
    /\ call.fn = "calculate_item_breakdown" /\ result = NotRun
    /\ result' = Returned(calculate_item_breakdown(call.billing_items, call.base_monthly_cost,
                                                    call.total_actual_cost, call.plan_rate))
    /\ UNCHANGED <<master_df, call, form_vars, run_vars>>

(***************************************************************************)
(* The calculator called directly: inputs of the report                    *)
(***************************************************************************)
MaxPlans == 2

MaxRecords == 2

Prefix == [i \in 1..SheetNameLen |-> "a"]

\* Two names that differ in their 16th character only, and a short one.
ReportPlans ==
    { [p |-> Prefix \o <<"x">>, rate |-> 75],
      [p |-> Prefix \o <<"y">>, rate |-> 82],
      [p |-> <<"L", "o", "o", "o", "p">>, rate |-> 100] }

ReportRecords ==
    { [year |-> "2024", month |-> "1", usage |-> 5, billed |-> 50, input_type |-> "measured"],
      [year |-> "2024", month |-> "2", usage |-> 0, billed |-> 100, input_type |-> "measured"],
      [year |-> "2024", month |-> "3", usage |-> 7, billed |-> 33, input_type |-> "estimated"],
      [year |-> "2024", month |-> "4", usage |-> 0, billed |-> 150, input_type |-> "measured"],
      [year |-> "2024", month |-> "5", usage |-> 9, billed |-> 300, input_type |-> "measured"] }

ReportItems ==
    { <<[name |-> ItemNames[1], val |-> 1], [name |-> ItemNames[2], val |-> 32]>>,
      <<[name |-> ItemNames[1], val |-> 33]>> }

BilledSum(records) == SumSeq([i \in 1..Len(records) |-> records[i].billed])

ReportCalls ==
    UNION {[fn : {"generate_excel_report"}, selected_plans : {plans},
            month_records : {records}, billing_items : {items},
            base_monthly_cost : {ItemSum(items)},
            total_actual_cost : {BilledSum(records)}] :
           plans \in SeqsOf(ReportPlans, 1, MaxPlans),
           records \in SeqsOf(ReportRecords, 1, MaxRecords),
           items \in ReportItems}

CallExcelReport ==
    /\ call.fn = "generate_excel_report" /\ result = NotRun
    /\ result' = generate_excel_report(call.selected_plans, call.month_records,
                                       call.billing_items, call.base_monthly_cost,
                                       call.total_actual_cost)
    /\ UNCHANGED <<master_df, call, form_vars, run_vars>>

(***************************************************************************)
(* The application (app.py).  Streamlit runs the whole script again after  *)
(* every interaction, so every action ends with the run of the script:     *)
(* the billing items are written back and the records and totals are       *)
(* built anew.  The category stays at its default, which offers the five   *)
(* low-voltage plans.                                                      *)
(***************************************************************************)
NumSlots == 2

MaxAdded == 1

DefaultItems ==
    << [name |-> "base charge", val |-> 5000],
       [name |-> "energy charge", val |-> 12000],
       [name |-> "fuel cost adjustment", val |-> 2000],
       [name |-> "renewable levy", val |-> 1000] >>

\* What "add an item" appends.
AddedItem == [name |-> "other item", val |-> 0]

\* The plans of the default category, rates in hundredths.
Plans ==
    << [p |-> <<"L", "o", "o", "o", "p">>, rate |-> 75, shot |-> 20000, run |-> 800],
       [p |-> <<"U", "-", "P", "O", "W", "E", "R">>, rate |-> 80, shot |-> 15000, run |-> 500],
       [p |-> <<"E", "l", "e", "n", "o", "v", "a">>, rate |-> 82, shot |-> 10000, run |-> 300],
       [p |-> <<"O", "f", "f", "i", "c", "e">>, rate |-> 83, shot |-> 8000, run |-> 200],
       [p |-> <<"P", "a", "l">>, rate |-> 84, shot |-> 5000, run |-> 100] >>

\* The values the model types into the widgets.
ItemInputs == {-8050, 12000}

\* The items whose amount the model edits.
EditedItems == {2}

UsageInputs == {0, 5}

BilledInputs == {0, 50, 100}

\* The checkboxes the model toggles.
Toggled == {1, 3}

\* The slots of the form are the months of 2024, 2025 and 2026 in order.
YearLabel(slot) == <<"2024", "2025", "2026">>[((slot - 1) \div 12) + 1]

MonthLabel(slot) ==
    <<"1", "2", "3", "4", "5", "6", "7", "8", "9", "10", "11", "12">>[((slot - 1) % 12) + 1]

\* cost_for_month = p if p > 0 else base_monthly_cost
CostForMonth(p, base) == IF p > 0 THEN p ELSE base

\* The record of a slot with an entry (u > 0 or p > 0).
SlotRecord(slot, u, p, base) ==
    [year       |-> YearLabel(slot),
     month      |-> MonthLabel(slot),
     usage      |-> u[slot],
     billed     |-> CostForMonth(p[slot], base),
     input_type |-> IF p[slot] > 0 THEN "measured" ELSE "estimated"]

\* The loop over the years and months, from this slot on.
RECURSIVE SlotRecords(_, _, _, _)
SlotRecords(slot, u, p, base) ==
    IF slot > NumSlots THEN <<>>
    ELSE (IF u[slot] > 0 \/ p[slot] > 0 THEN <<SlotRecord(slot, u, p, base)>> ELSE <<>>)
         \o SlotRecords(slot + 1, u, p, base)

\* The record put in when no month has an entry.
BaselineRecord(base) ==
    [year |-> "-", month |-> "base month", usage |-> 0, billed |-> base,
     input_type |-> "baseline"]

\* selected_plans = [p for p in plans if the checkbox of p is ticked]
SelectedPlans(off) == SelectSeq(Plans, LAMBDA plan : \A i \in off : Plans[i] # plan)

\* One run of the script over the widgets' values.
Run(items, u, p) ==
    LET base    == ItemSum(items)
        records == SlotRecords(1, u, p, base)
    IN  /\ billing_items' = items
        /\ base_monthly_cost' = base
        /\ total_usage_kwh' = SumSeq([i \in 1..Len(records) |-> records[i].usage])
        /\ IF records = <<>>
           THEN /\ calc_months' = 1
                /\ total_actual_cost' = base
                /\ month_records' = <<BaselineRecord(base)>>
           ELSE /\ calc_months' = Len(records)
                /\ total_actual_cost' = BilledSum(records)
                /\ month_records' = records

\* The button "add an item".
AddItem ==
    /\ Len(billing_items) < Len(DefaultItems) + MaxAdded
    /\ Run(Append(billing_items, AddedItem), u_in, p_in)
    /\ call' = NoCall /\ result' = NotRun
    /\ UNCHANGED <<master_df, u_in, p_in, unchecked>>

\* An amount typed into the number input of item i.
EditItem ==
    /\ \E i \in EditedItems, v \in ItemInputs :
          Run([billing_items EXCEPT ![i].val = v], u_in, p_in)
    /\ call' = NoCall /\ result' = NotRun
    /\ UNCHANGED <<master_df, u_in, p_in, unchecked>>

\* A usage typed into the number input of a month.
EditUsage ==
    /\ \E slot \in 1..NumSlots, v \in UsageInputs :
          /\ u_in' = [u_in EXCEPT ![slot] = v]
          /\ Run(billing_items, u_in', p_in)
    /\ call' = NoCall /\ result' = NotRun
    /\ UNCHANGED <<master_df, p_in, unchecked>>

\* A billed amount typed into the number input of a month.
EditBilled ==
    /\ \E slot \in 1..NumSlots, v \in BilledInputs :
          /\ p_in' = [p_in EXCEPT ![slot] = v]
          /\ Run(billing_items, u_in, p_in')
    /\ call' = NoCall /\ result' = NotRun
    /\ UNCHANGED <<master_df, u_in, unchecked>>

\* A plan's checkbox ticked or unticked.
TogglePlan ==
    /\ \E i \in Toggled :
          unchecked' = IF i \in unchecked THEN unchecked \ {i} ELSE unchecked \cup {i}
    /\ Run(billing_items, u_in, p_in)
    /\ call' = NoCall /\ result' = NotRun
    /\ UNCHANGED <<master_df, u_in, p_in>>

\* The download button: the script runs and calls generate_excel_report.
Download ==
    /\ Run(billing_items, u_in, p_in)
    /\ call' = [fn |-> "generate_excel_report",
                selected_plans    |-> SelectedPlans(unchecked),
                month_records     |-> month_records',
                billing_items     |-> billing_items',
                base_monthly_cost |-> base_monthly_cost',
                total_actual_cost |-> total_actual_cost']
    /\ result' = generate_excel_report(SelectedPlans(unchecked), month_records',
                                       billing_items', base_monthly_cost',
                                       total_actual_cost')
    /\ UNCHANGED <<master_df, u_in, p_in, unchecked>>

\* The state after the first run of the script.
AppInit ==
    /\ billing_items = DefaultItems
    /\ u_in = [s \in 1..NumSlots |-> 0]
    /\ p_in = [s \in 1..NumSlots |-> 0]
    /\ unchecked = {}
    /\ base_monthly_cost = ItemSum(DefaultItems)
    /\ month_records = <<BaselineRecord(ItemSum(DefaultItems))>>
    /\ total_usage_kwh = 0
    /\ total_actual_cost = ItemSum(DefaultItems)
    /\ calc_months = 1

InitApp ==
    /\ master_df = <<>>
    /\ call = NoCall
    /\ result = NotRun
    /\ AppInit

NextApp == AddItem \/ EditItem \/ EditUsage \/ EditBilled \/ TogglePlan \/ Download

SpecApp == InitApp /\ [][NextApp]_vars

InitReport ==
    /\ master_df = <<>>
    /\ call \in ReportCalls
    /\ result = NotRun
    /\ AppInit

NextReport == CallExcelReport

SpecReport == InitReport /\ [][NextReport]_vars

InitCalc ==
    /\ master_df = <<>>
    /\ call \in PlanCostCalls \cup BreakdownCalls
    /\ result = NotRun
    /\ AppInit

InitTariff ==
    /\ master_df \in Catalogs
    /\ call \in CostCalls \cup ComparisonCalls
    /\ result = NotRun
    /\ AppInit

NextTariff == CallCalculateCost \/ CallGetComparison

SpecTariff == InitTariff /\ [][NextTariff]_vars

NextCalc == CallPlanCosts \/ CallItemBreakdown

SpecCalc == InitCalc /\ [][NextCalc]_vars

(***************************************************************************)
(* Properties of the simple mode                                           *)
(***************************************************************************)
PlanCostsReturned == call.fn = "calculate_plan_costs" /\ result.kind = "return"

BreakdownReturned == call.fn = "calculate_item_breakdown" /\ result.kind = "return"

\* x / y truncated toward zero, in exact integer arithmetic (y > 0).
TruncDiv(x, y) == Sign(x) * (Abs(x) \div y)

\* The integer a float computation produced for the exact quotient x / y:
\* the quotient truncated toward zero, or one unit nearer zero when the
\* float fell just short of a quotient that is a whole number.
TruncatedFrom(n, x, y) ==
    \/ n = TruncDiv(x, y)
    \/ x % y = 0 /\ x # 0 /\ n = TruncDiv(x, y) - Sign(x)

\* C1: calculate_plan_costs, for every integer total >= 0, every rate in
\* (0, 1] and every number of months: proposed_cost is the floor of the
\* float product total * rate and lies between the exact product less one
\* and the exact product, proposed_cost <= total, and reduction_amount =
\* total - proposed_cost >= 0.
C1_ProposedWithinTotal ==
    PlanCostsReturned =>
        LET t == call.total_actual_cost
            r == result.value
        IN  /\ r.proposed_cost = FFloor(FMul(PlanRate(call.plan_rate), t))
            /\ TruncatedFrom(r.proposed_cost, t * call.plan_rate, 100)
            /\ r.reduction_amount = t - r.proposed_cost
            /\ r.proposed_cost <= t
            /\ r.reduction_amount >= 0

C1_Witness ==
    /\ PlanCostsReturned
    /\ call.total_actual_cost = 150 /\ call.plan_rate = 82
    /\ result.value.proposed_cost = 122 /\ result.value.reduction_amount = 28

\* The amounts of row i of the breakdown, read back from the table.
CurrentOf(i) == ParseYen(result.value[i].current)

ProposedOf(i) == ParseYen(result.value[i].proposed)

DifferenceOf(i) == ParseYen(result.value[i].difference)

\* What C6 and its amended form share: one row per item, in input order,
\* each with the item's own name, and difference = current - proposed.
BreakdownRowsFollowItems ==
    /\ Len(result.value) = Len(call.billing_items)
    /\ \A i \in 1..Len(call.billing_items) :
          /\ result.value[i].item = call.billing_items[i].name
          /\ result.value[i].current = FormatYen(CurrentOf(i))
          /\ DifferenceOf(i) = CurrentOf(i) - ProposedOf(i)

\* C6 as claimed: with base_monthly_cost > 0, for every item amount (negative
\* ones included) currentTotal = floor(amount / base * total) and
\* proposedTotal = floor(currentTotal * rate); one row per item in input order.
C6_FloorOfEveryAmount ==
    (BreakdownReturned /\ call.base_monthly_cost > 0) =>
        /\ BreakdownRowsFollowItems
        /\ \A i \in 1..Len(call.billing_items) :
              /\ CurrentOf(i) = FFloor(FMul(FDiv(call.billing_items[i].val,
                                                 call.base_monthly_cost),
                                            call.total_actual_cost))
              /\ ProposedOf(i) = FFloor(FMul(PlanRate(call.plan_rate), CurrentOf(i)))

\* C6 amended: with base_monthly_cost > 0, currentTotal = int(amount / base *
\* total) and proposedTotal = int(currentTotal * rate), where int truncates
\* toward zero (the exact quotient truncated toward zero, or one unit nearer
\* zero when the float falls short of a whole quotient); difference =
\* currentTotal - proposedTotal; one row per item, in input order, items that
\* share a name not merged.
C6_TruncationTowardZero ==
    (BreakdownReturned /\ call.base_monthly_cost > 0) =>
        /\ BreakdownRowsFollowItems
        /\ \A i \in 1..Len(call.billing_items) :
              /\ CurrentOf(i) = FTrunc(FMul(FDiv(call.billing_items[i].val,
                                                 call.base_monthly_cost),
                                            call.total_actual_cost))
              /\ TruncatedFrom(CurrentOf(i),
                               call.billing_items[i].val * call.total_actual_cost,
                               call.base_monthly_cost)
              /\ ProposedOf(i) = FTrunc(FMul(PlanRate(call.plan_rate), CurrentOf(i)))
              /\ TruncatedFrom(ProposedOf(i), CurrentOf(i) * call.plan_rate, 100)

\* A negative amount whose share is no whole number, between two items of
\* the same name: the row shows the share truncated toward zero.
C6_Witness ==
    /\ BreakdownReturned
    /\ call.base_monthly_cost = 17 /\ call.total_actual_cost = 49
    /\ Len(call.billing_items) = 3
    /\ call.billing_items[1].val = -16
    /\ call.billing_items[1].name = call.billing_items[2].name
    /\ CurrentOf(1) = -46
    /\ CurrentOf(1) # -((16 * 49 + 16) \div 17)

SumCurrent == SumSeq([i \in 1..Len(result.value) |-> CurrentOf(i)])

RoundTripCase ==
    /\ BreakdownReturned
    /\ call.base_monthly_cost = ItemSum(call.billing_items)
    /\ call.base_monthly_cost > 0

\* C7 as claimed: when base_monthly_cost is the sum of the item amounts and
\* > 0, the sum of currentTotal over the n items differs from
\* total_actual_cost by less than n.
C7_SumWithinLessThanN ==
    RoundTripCase =>
        Abs(SumCurrent - call.total_actual_cost) < Len(call.billing_items)

\* C7 amended: under the same condition the sum of currentTotal differs from
\* total_actual_cost by at most n (each item can lose a whole unit).
C7_SumWithinN ==
    RoundTripCase =>
        Abs(SumCurrent - call.total_actual_cost) <= Len(call.billing_items)

C7_Witness ==
    /\ RoundTripCase
    /\ Len(call.billing_items) = 3
    /\ call.total_actual_cost = 49
    /\ SumCurrent = 46

(***************************************************************************)
(* Properties of the catalog mode                                          *)
(***************************************************************************)
CostCallRan == call.fn = "calculate_cost" /\ result # NotRun

CostReturned == call.fn = "calculate_cost" /\ result.kind = "return"

ComparisonRan == call.fn = "get_comparison" /\ result # NotRun

\* The catalog row a calculation for this company is made from.
PlanOf(company_name) == MatchingPlans(master_df, company_name, call.contract_type)[1]

\* C2 as claimed: calculate_cost for a High Voltage plan whose catalog row
\* exists, called without a power factor, fails with the missing-parameter
\* error and returns no figures, for every capacity and every usage series.
C2_MissingPowerFactorRaises ==
    ( /\ CostCallRan
      /\ call.contract_type = "High Voltage"
      /\ MatchingPlans(master_df, call.company_name, call.contract_type) # <<>>
      /\ call.power_factor = NoPowerFactor )
    => result = Raised("ValueError: power factor required")

Unsorted ==
    ComparisonResults(master_df, AvailablePlans(master_df, call.contract_type),
                      call.contract_type, call.capacity, call.monthly_usage, call.power_factor)

\* The plans of the contract type whose calculation returns, in catalog order.
Computed ==
    SelectSeq(AvailablePlans(master_df, call.contract_type),
              LAMBDA row : calculate_cost(master_df, row.company_name, call.contract_type,
                                          call.capacity, call.monthly_usage,
                                          call.power_factor).kind = "return")

WithNet(s, net) == SelectSeq(s, LAMBDA e : e.net_annual_cost = net)

\* C4: get_comparison returns its results in ascending order of
\* net_annual_cost = sum of the monthly costs - incentive_shot - 12 *
\* incentive_running; results with equal net_annual_cost keep the relative
\* order of their catalog rows.
C4_SortedStable ==
    ComparisonRan =>
        /\ result.kind = "return"
        /\ Len(result.value) = Len(Unsorted)
        /\ \A i, j \in 1..Len(result.value) :
              i < j => result.value[i].net_annual_cost <= result.value[j].net_annual_cost
        /\ \A i \in 1..Len(result.value) :
              LET e == result.value[i]
                  plan == PlanOf(e.company_name)
              IN  e.net_annual_cost = SumSeq(e.monthly_costs) - Money(plan.incentive_shot.v)
                                      - 12 * Money(plan.incentive_running.v)
        /\ \A e \in {result.value[i] : i \in 1..Len(result.value)} :
              WithNet(result.value, e.net_annual_cost) = WithNet(Unsorted, e.net_annual_cost)
        /\ [i \in 1..Len(Unsorted) |-> Unsorted[i].company_name]
             = [i \in 1..Len(Computed) |-> Computed[i].company_name]

\* The dearer plan C comes first in the catalog and last in the result; A
\* and B cost the same and stay in catalog order.
C4_Witness ==
    /\ ComparisonRan
    /\ Len(master_df) = 3
    /\ [i \in 1..3 |-> master_df[i].company_name] = <<"C", "B", "A">>
    /\ Len(result.value) = 3
    /\ [i \in 1..3 |-> result.value[i].company_name] = <<"B", "A", "C">>
    /\ result.value[1].net_annual_cost = result.value[2].net_annual_cost
    /\ result.value[2].net_annual_cost < result.value[3].net_annual_cost

\* The calculation get_comparison makes for catalog row k raises.
RowFails(k) ==
    /\ master_df[k].contract_type = call.contract_type
    /\ calculate_cost(master_df, master_df[k].company_name, call.contract_type,
                      call.capacity, call.monthly_usage, call.power_factor).kind = "raise"

Without(df, ks) == SelectSeq([i \in 1..Len(df) |-> [k |-> i, row |-> df[i]]],
                             LAMBDA x : x.k \notin ks)

RowsWithout(df, ks) == [i \in 1..Len(Without(df, ks)) |-> Without(df, ks)[i].row]

ComparisonOf(df) ==
    get_comparison(df, call.contract_type, call.capacity, call.monthly_usage, call.power_factor)

SharesKey(k, j) ==
    /\ master_df[j].company_name = master_df[k].company_name
    /\ master_df[j].contract_type = master_df[k].contract_type

\* C5 as claimed: when the calculation of one catalog row fails,
\* get_comparison does not fail, and its results are the entries, in the same
\* count and order, that it returns for the catalog without that row.
C5_AsIfRowAbsent ==
    ComparisonRan =>
        /\ result.kind = "return"
        /\ \A k \in 1..Len(master_df) :
              RowFails(k) => result = ComparisonOf(RowsWithout(master_df, {k}))

\* C5 amended: get_comparison never fails; the rows whose calculation fails
\* are excluded, and the results are the entries, in the same count and
\* order, that it returns for the catalog without all of them; for a failing
\* row whose (company, contract type) key no other row shares, they are also
\* the results for the catalog without that row alone.
C5_AsIfFailingKeysAbsent ==
    ComparisonRan =>
        /\ result.kind = "return"
        /\ result = ComparisonOf(RowsWithout(master_df,
                                             {k \in 1..Len(master_df) : RowFails(k)}))
        /\ Len(result.value) = Cardinality({k \in 1..Len(master_df) :
                                               master_df[k].contract_type = call.contract_type
                                               /\ ~RowFails(k)})
        /\ \A k \in 1..Len(master_df) :
              (RowFails(k) /\ \A j \in 1..Len(master_df) : SharesKey(k, j) => j = k)
                 => result = ComparisonOf(RowsWithout(master_df, {k}))

\* The malformed row of B comes first and fails, A and C are computed.
C5_Witness ==
    /\ ComparisonRan
    /\ Len(master_df) = 3
    /\ RowFails(1) /\ ~RowFails(2) /\ ~RowFails(3)
    /\ [i \in 1..Len(result.value) |-> result.value[i].company_name] = <<"A", "C">>

\* The rows of the catalog that have this key, by index.
RowsOfKey(company_name, contract_type) ==
    {k \in 1..Len(master_df) : /\ master_df[k].company_name = company_name
                               /\ master_df[k].contract_type = contract_type}

\* The index of the first row with this key (there is one).
FirstOfKey(company_name, contract_type) ==
    CHOOSE k \in RowsOfKey(company_name, contract_type) :
        \A j \in RowsOfKey(company_name, contract_type) : k <= j

\* The calculation made on the catalog that holds nothing but the first row
\* with this key.
FromFirstRowAlone(company_name, contract_type) ==
    calculate_cost(<<master_df[FirstOfKey(company_name, contract_type)]>>, company_name,
                   contract_type, call.capacity, call.monthly_usage, call.power_factor)

\* calculate_cost computes from the first row with the key it is called
\* with; the later rows with that key do not influence its outcome.
FirstMatchWins ==
    (CostCallRan /\ RowsOfKey(call.company_name, call.contract_type) # {}) =>
        /\ result = FromFirstRowAlone(call.company_name, call.contract_type)
        /\ result = calculate_cost(
                       RowsWithout(master_df,
                                   RowsOfKey(call.company_name, call.contract_type)
                                   \ {FirstOfKey(call.company_name, call.contract_type)}),
                       call.company_name, call.contract_type, call.capacity,
                       call.monthly_usage, call.power_factor)

\* The rows get_comparison iterates over, by index.
MatchingRows == {k \in 1..Len(master_df) : master_df[k].contract_type = call.contract_type}

DuplicateKeys ==
    \E k, j \in MatchingRows : k # j /\ master_df[k].company_name = master_df[j].company_name

EntriesOf(company_name) == SelectSeq(result.value, LAMBDA e : e.company_name = company_name)

\* Every entry of this company carries the figures of the first row with
\* its key.
CarryFirstRow(company_name) ==
    \A i \in 1..Len(EntriesOf(company_name)) :
        LET r == FromFirstRowAlone(company_name, call.contract_type)
        IN  /\ r.kind = "return"
            /\ EntriesOf(company_name)[i]
                 = ComparisonEntry([company_name |-> company_name], r.value)

\* C11 as claimed: with several rows of one key, calculate_cost computes from
\* the first of them and the later ones never influence it; get_comparison
\* returns one entry per row of the contract type, duplicates included, and
\* every entry of a duplicate row carries the figures of the first row with
\* that key.
C11_OneEntryPerMatchingRow ==
    /\ FirstMatchWins
    /\ (ComparisonRan /\ DuplicateKeys) =>
          /\ result.kind = "return"
          /\ Len(result.value) = Cardinality(MatchingRows)
          /\ \A k \in MatchingRows :
                /\ Len(EntriesOf(master_df[k].company_name))
                     = Cardinality(RowsOfKey(master_df[k].company_name, call.contract_type))
                /\ CarryFirstRow(master_df[k].company_name)

\* C11 amended: with several rows of one key, calculate_cost computes from the
\* first of them and the later ones never influence it; get_comparison
\* returns one entry per row of the contract type whose calculation does not
\* fail, duplicates included; the rows of one key fail or succeed together
\* (with the first row of the key), and every entry of a duplicate row
\* carries the figures of the first row with that key.
C11_OneEntryPerComputedRow ==
    /\ FirstMatchWins
    /\ (ComparisonRan /\ DuplicateKeys) =>
          /\ result.kind = "return"
          /\ Len(result.value) = Cardinality({k \in MatchingRows : ~RowFails(k)})
          /\ \A k \in MatchingRows :
                /\ RowFails(k) <=>
                      FromFirstRowAlone(master_df[k].company_name,
                                        call.contract_type).kind = "raise"
                /\ Len(EntriesOf(master_df[k].company_name))
                     = IF RowFails(k) THEN 0
                       ELSE Cardinality(RowsOfKey(master_df[k].company_name,
                                                  call.contract_type))
                /\ CarryFirstRow(master_df[k].company_name)

\* Two rows of company A with different prices and incentives: two entries
\* for A, both with the figures of the first row (10 * 2 + 2 * 5 = 30.00 a
\* month, no incentive), none with those of the second.
C11_Witness ==
    /\ ComparisonRan
    /\ call.contract_type = "Low Voltage" /\ call.monthly_usage = <<5>>
    /\ Len(master_df) = 3
    /\ master_df[1] = Row("A", "Low Voltage", Number(10), Number(2), Number(0), Number(0))
    /\ master_df[2] = Row("A", "Low Voltage", Number(20), Number(3), Number(4), Number(1))
    /\ Len(EntriesOf("A")) = 2
    /\ \A i \in 1..2 : /\ EntriesOf("A")[i].annual_cost = 3000
                       /\ EntriesOf("A")[i].net_annual_cost = 3000

(***************************************************************************)
(* Properties: the form and the report                                     *)
(***************************************************************************)
\* C8 as claimed: after any sequence of edits to the billing items and the
\* monthly inputs, every record carries the billed amount that was entered
\* (> 0) or, when only usage was entered or the baseline record stands in,
\* the sum of the current billing item amounts, and its billed amount is
\* never negative.
C8_BilledNeverNegative ==
    \A i \in 1..Len(month_records) :
        /\ month_records[i].input_type = "measured" => month_records[i].billed > 0
        /\ month_records[i].input_type # "measured" =>
              month_records[i].billed = ItemSum(billing_items)
        /\ month_records[i].billed >= 0

ReportReturned == call.fn = "generate_excel_report" /\ result.kind = "return"

\* The first SheetNameLen characters of a name.
FirstChars(name) == [j \in 1..Min(SheetNameLen, Len(name)) |-> name[j]]

TruncatedNames ==
    {FirstChars(call.selected_plans[i].p) : i \in 1..Len(call.selected_plans)}

\* The last selected plan whose name has these first characters.
LastPlanOf(t) ==
    LET last == CHOOSE i \in 1..Len(call.selected_plans) :
                   /\ FirstChars(call.selected_plans[i].p) = t
                   /\ \A j \in (i + 1)..Len(call.selected_plans) :
                         FirstChars(call.selected_plans[j].p) # t
    IN  call.selected_plans[last]

SheetsNamed(name) == {k \in 1..Len(result.value) : result.value[k].name = name}

\* The report holds exactly one sheet of this name, with these rows.
HoldsOnce(name, rows) ==
    /\ Cardinality(SheetsNamed(name)) = 1
    /\ \A k \in SheetsNamed(name) : result.value[k].rows = rows

\* C9: the report holds exactly two tables per distinct truncated plan name
\* (the first 15 characters of the name plus a fixed suffix): a monthly table
\* and an item table, each with the figures of the last selected plan of
\* that truncated name.
C9_TwoTablesPerTruncatedName ==
    ReportReturned =>
        /\ Len(result.value) = 2 * Cardinality(TruncatedNames)
        /\ \A t \in TruncatedNames :
              /\ HoldsOnce(t \o MonthlySuffix,
                           MonthlyTable(call.month_records, LastPlanOf(t).rate))
              /\ HoldsOnce(t \o ItemsSuffix,
                           ItemsTable(call.billing_items, call.base_monthly_cost,
                                      call.total_actual_cost, LastPlanOf(t).rate))

\* Two plans whose names differ in the 16th character only: two sheets, with
\* the figures of the second plan, which are not those of the first.
C9_Witness ==
    /\ ReportReturned
    /\ Len(call.selected_plans) = 2
    /\ call.selected_plans[1].p # call.selected_plans[2].p
    /\ FirstChars(call.selected_plans[1].p) = FirstChars(call.selected_plans[2].p)
    /\ Len(result.value) = 2
    /\ result.value[1].rows = MonthlyTable(call.month_records, call.selected_plans[2].rate)
    /\ result.value[1].rows # MonthlyTable(call.month_records, call.selected_plans[1].rate)

\* The monthly tables of the report.
MonthlySheets ==
    {k \in 1..Len(result.value) :
        \E t \in TruncatedNames : result.value[k].name = t \o MonthlySuffix}

\* The selected plans a sheet can stand for: those of its truncated name.
PlansOfSheet(k) ==
    {i \in 1..Len(call.selected_plans) :
        result.value[k].name = FirstChars(call.selected_plans[i].p) \o MonthlySuffix}

ColumnSum(rows, n, column) == SumSeq([i \in 1..n |-> rows[i][column]])

\* C10 as claimed: in every monthly table of the report, for a selected plan
\* of the table's name, each record row has proposed = floor(billed * rate)
\* and reduction = billed - proposed, the rows are the caller's records, and
\* the one total row that follows is the column-wise sum of the record rows;
\* every selected plan has its table.
C10_MonthlyTableFloor ==
    ReportReturned =>
        /\ \A p \in 1..Len(call.selected_plans) : \E k \in MonthlySheets : p \in PlansOfSheet(k)
        /\ \A k \in MonthlySheets : \E p \in PlansOfSheet(k) :
            LET plan == call.selected_plans[p]
                rows == result.value[k].rows
                n    == Len(call.month_records)
            IN  /\ Len(rows) = n + 1
                /\ \A i \in 1..n :
                      /\ rows[i].usage = call.month_records[i].usage
                      /\ rows[i].billed = call.month_records[i].billed
                      /\ rows[i].proposed =
                            FFloor(FMul(PlanRate(plan.rate), call.month_records[i].billed))
                      /\ rows[i].reduction = rows[i].billed - rows[i].proposed
                /\ rows[n + 1].usage = ColumnSum(rows, n, "usage")
                /\ rows[n + 1].billed = ColumnSum(rows, n, "billed")
                /\ rows[n + 1].proposed = ColumnSum(rows, n, "proposed")
                /\ rows[n + 1].reduction = ColumnSum(rows, n, "reduction")

\* The plan whose figures a monthly sheet holds: the last selected plan of
\* its name.
PlanOfSheet(k) ==
    call.selected_plans[CHOOSE p \in PlansOfSheet(k) : \A q \in PlansOfSheet(k) : q <= p]

\* The total row of a monthly sheet.
TotalRow(k) == result.value[k].rows[Len(call.month_records) + 1]

\* The headline figures of the plan of a sheet: calculate_plan_costs on the
\* total the caller built from the records.
Headline(k) ==
    calculate_plan_costs(call.total_actual_cost, PlanOfSheet(k).rate, Len(call.month_records))

\* The case of C12: the total is the sum of the billed amounts of the
\* records, none of which is negative.
HeadlineCase ==
    /\ ReportReturned
    /\ call.total_actual_cost = BilledSum(call.month_records)
    /\ \A i \in 1..Len(call.month_records) : call.month_records[i].billed >= 0

\* C12 as claimed: in that case, for every plan, the proposed amount of the
\* report's total row never exceeds the headline proposed_cost and falls
\* short of it by less than n, the number of records; the total row's
\* reduction is >= the headline reduction_amount and exceeds it by less than
\* n; the two are equal when n = 1.
C12_TotalRowWithinHeadline ==
    HeadlineCase =>
        \A k \in MonthlySheets :
            LET n == Len(call.month_records)
            IN  /\ TotalRow(k).proposed <= Headline(k).proposed_cost
                /\ Headline(k).proposed_cost - TotalRow(k).proposed < n
                /\ TotalRow(k).reduction >= Headline(k).reduction_amount
                /\ TotalRow(k).reduction - Headline(k).reduction_amount < n
                /\ n = 1 => /\ TotalRow(k).proposed = Headline(k).proposed_cost
                            /\ TotalRow(k).reduction = Headline(k).reduction_amount

\* C12 amended: in that case, for every plan, the proposed amount of the
\* report's total row exceeds the headline proposed_cost by at most 1 and
\* falls short of it by at most n; the total row's reduction differs from
\* the headline reduction_amount by the same amount in the other direction;
\* the two are equal when n = 1.
C12_TotalRowNearHeadline ==
    HeadlineCase =>
        \A k \in MonthlySheets :
            LET n == Len(call.month_records)
            IN  /\ TotalRow(k).proposed <= Headline(k).proposed_cost + 1
                /\ Headline(k).proposed_cost - TotalRow(k).proposed <= n
                /\ TotalRow(k).reduction - Headline(k).reduction_amount
                     = Headline(k).proposed_cost - TotalRow(k).proposed
                /\ n = 1 => /\ TotalRow(k).proposed = Headline(k).proposed_cost
                            /\ TotalRow(k).reduction = Headline(k).reduction_amount

\* Records of 150 and 300 under the plan of rate 0.82: the total row shows
\* 122 + 245 = 367, the headline int(450 * 0.82) = 369, two more for two
\* records.
C12_Witness ==
    /\ HeadlineCase
    /\ Len(call.month_records) = 2
    /\ call.month_records[1].billed = 150 /\ call.month_records[2].billed = 300
    /\ Len(call.selected_plans) = 1 /\ call.selected_plans[1].rate = 82
    /\ \A k \in MonthlySheets :
          /\ TotalRow(k).proposed = 367
          /\ Headline(k).proposed_cost = 369

Spec == SpecCalc
====
